---- MODULE Spec2Model ----
(***************************************************************************)
(* Heartbeat monitor: validator (src/src/validator.ts), grouper and gap    *)
(* detector (analyzer part of src/src/main.ts, lines 65-145) and the       *)
(* detectMissedHeartbeats pipeline (src/src/main.ts, lines 8-15).          *)
(*                                                                         *)
(* Text is a sequence of one-character strings.  An instant is its time    *)
(* value in milliseconds, as Date.getTime() returns it.                    *)
(***************************************************************************)
EXTENDS Integers, Sequences, FiniteSets, TLC

VARIABLES events, config, pc, heartbeats, invalid, groupedByService, alert, alerts, workers

vars == <<events, config, pc, heartbeats, invalid, groupedByService, alert, alerts, workers>>

(***************************************************************************)
(* Bounds of the model.                                                    *)
(***************************************************************************)
MaxLen == 4        \* longest sequence of validated records handed to the core
MaxEvents == 3     \* longest sequence of raw entries handed to the validator
MaxSeconds == 2    \* the last second a Date can hold
MaxMisses == 1     \* largest allowed_misses sampled

(***************************************************************************)
(* Program constants.                                                      *)
(***************************************************************************)
MsPerSecond == 1000

\* The largest time value a Date can hold (8.64e15 ms in ECMAScript), scaled
\* down.
MaxTimeValue == MaxSeconds * MsPerSecond

(***************************************************************************)
(* Values.                                                                 *)
(***************************************************************************)
Null == [tag |-> "null"]
RangeError == [tag |-> "RangeError"]

Max(a, b) == IF a >= b THEN a ELSE b

Range(s) == {s[i] : i \in 1..Len(s)}

SeqsUpTo(S, n) == UNION {[1..k -> S] : k \in 0..n}

\* types.Config
Config == [expected_interval_seconds : {1, 2}, allowed_misses : 0..MaxMisses]

\* Sampled instants: three whole seconds and the instant one millisecond
\* before the second of them.
Times == {0, 999, 1000, 2000}

\* Sampled service identifiers (already trimmed, non-empty); they differ only
\* in letter case.
Services == {<<"a">>, <<"A">>}

\* types.ParsedHeartbeat
ParsedHeartbeat == [service : Services, timestamp : Times]

(***************************************************************************)
(* Date: construction from a time value and rendering as text.             *)
(***************************************************************************)
DigitChar == <<"0", "1", "2", "3", "4", "5", "6", "7", "8", "9">>

RECURSIVE Decimal(_)
Decimal(n) == IF n < 10 THEN <<DigitChar[n + 1]>>
              ELSE Decimal(n \div 10) \o <<DigitChar[(n % 10) + 1]>>

Pad3(n) == <<DigitChar[(n \div 100) + 1], DigitChar[((n \div 10) % 10) + 1], DigitChar[(n % 10) + 1]>>

\* new Date(timeValue): an Invalid Date when the time value is out of range.
NewDate(t) == IF t >= -MaxTimeValue /\ t <= MaxTimeValue
              THEN [valid |-> TRUE, time |-> t]
              ELSE [valid |-> FALSE, time |-> 0]

\* Date.prototype.toISOString on a valid, non-negative instant: whole seconds,
\* ".", three millisecond digits, "Z".
ToISOString(t) == Decimal(t \div MsPerSecond) \o <<".">> \o Pad3(t % MsPerSecond) \o <<"Z">>

(***************************************************************************)
(* Gap detector: analyseServiceHeartbeats.                                 *)
(***************************************************************************)
\* Insert h into the sorted list s after every element e with
\* e.timestamp - h.timestamp <= 0 (the comparator of the sort; the sort is stable).
RECURSIVE Insert(_, _)
Insert(s, h) == IF s = <<>> THEN <<h>>
                ELSE IF s[Len(s)].timestamp - h.timestamp <= 0 THEN Append(s, h)
                ELSE Append(Insert(SubSeq(s, 1, Len(s) - 1), h), s[Len(s)])

\* Variant: the records are scanned in arrival order.
Unsorted(hs) == hs

RECURSIVE SortByTimestamp(_)
SortByTimestamp(hs) == IF hs = <<>> THEN <<>>
                       ELSE Insert(SortByTimestamp(SubSeq(hs, 1, Len(hs) - 1)), hs[Len(hs)])

\* Variant: the threshold counts allowed_misses intervals, not one more.
ThresholdWithoutPlusOne(cfg) == cfg.expected_interval_seconds * cfg.allowed_misses * MsPerSecond

ThresholdMs(cfg) == cfg.expected_interval_seconds * (cfg.allowed_misses + 1) * MsPerSecond

\* Variant: the gap is measured from the first record of the list.
GapMsFromFirst(sorted, i) == sorted[i + 1].timestamp - sorted[1].timestamp

GapMs(sorted, i) == sorted[i + 1].timestamp - sorted[i].timestamp

\* Variant: a gap equal to the threshold does not qualify.
QualifiesStrict(sorted, i, cfg) == GapMs(sorted, i) > ThresholdMs(cfg)

Qualifies(sorted, i, cfg) == GapMs(sorted, i) >= ThresholdMs(cfg)

\* Variant: the alert is dated at the earlier record itself.
MakeAlertAtCurrent(current, cfg) ==
    LET alertTimestamp == NewDate(current.timestamp)
    IN  IF alertTimestamp.valid
        THEN [tag |-> "alert", service |-> current.service, alert_at |-> ToISOString(alertTimestamp.time)]
        ELSE RangeError

\* Variant: the alert is dated at the end of the tolerated gap.
MakeAlertAtThreshold(current, cfg) ==
    LET alertTimestamp == NewDate(current.timestamp + ThresholdMs(cfg))
    IN  IF alertTimestamp.valid
        THEN [tag |-> "alert", service |-> current.service, alert_at |-> ToISOString(alertTimestamp.time)]
        ELSE RangeError

\* The alert built for the pair whose earlier record is current.
MakeAlert(current, cfg) ==
    LET alertTimestamp == NewDate(current.timestamp + cfg.expected_interval_seconds * MsPerSecond)
    IN  IF alertTimestamp.valid
        THEN [tag |-> "alert", service |-> current.service, alert_at |-> ToISOString(alertTimestamp.time)]
        ELSE RangeError

\* Variant: the scan keeps the last qualifying pair.
RECURSIVE ScanLast(_, _, _)
ScanLast(sorted, i, cfg) ==
    IF i > Len(sorted) - 1 THEN Null
    ELSE LET later == ScanLast(sorted, i + 1, cfg)
         IN  IF later.tag # "null" THEN later
             ELSE IF Qualifies(sorted, i, cfg) THEN MakeAlert(sorted[i], cfg)
             ELSE Null

\* Variant: the alert is built from the later record of the pair.
RECURSIVE ScanFromNext(_, _, _)
ScanFromNext(sorted, i, cfg) ==
    IF i > Len(sorted) - 1 THEN Null
    ELSE IF Qualifies(sorted, i, cfg) THEN MakeAlert(sorted[i + 1], cfg)
    ELSE ScanFromNext(sorted, i + 1, cfg)

\* The loop over consecutive pairs, from pair i on.  Both records of a pair
\* exist for every index of the loop, so its "continue" is never taken.
RECURSIVE Scan(_, _, _)
Scan(sorted, i, cfg) == IF i > Len(sorted) - 1 THEN Null
                        ELSE IF Qualifies(sorted, i, cfg) THEN MakeAlert(sorted[i], cfg)
                        ELSE Scan(sorted, i + 1, cfg)

analyseServiceHeartbeats(hs, cfg) == IF Len(hs) < 2 THEN Null
                                     ELSE Scan(SortByTimestamp(hs), 1, cfg)

(***************************************************************************)
(* Grouper: groupHeartbeatsByService.  A Map is the sequence of its        *)
(* entries in insertion order.                                             *)
(***************************************************************************)
MapHas(m, k) == \E i \in 1..Len(m) : m[i].key = k

\* Variant: the lookup never finds the list stored under a key.
MapGetNothing(m, k) == <<>>

MapGet(m, k) == LET i == CHOOSE j \in 1..Len(m) : m[j].key = k IN m[i].value

\* Variant: every set adds an entry, also under a key already present.
MapSetAppendOnly(m, k, v) == Append(m, [key |-> k, value |-> v])

MapSet(m, k, v) == IF MapHas(m, k)
                   THEN [i \in 1..Len(m) |-> IF m[i].key = k THEN [key |-> k, value |-> v] ELSE m[i]]
                   ELSE Append(m, [key |-> k, value |-> v])

RECURSIVE groupHeartbeatsByService(_)
groupHeartbeatsByService(hs) ==
    IF hs = <<>> THEN <<>>
    ELSE LET grouped == groupHeartbeatsByService(SubSeq(hs, 1, Len(hs) - 1))
             heartbeat == hs[Len(hs)]
             existing == IF MapHas(grouped, heartbeat.service) THEN MapGet(grouped, heartbeat.service) ELSE <<>>
         IN  MapSet(grouped, heartbeat.service, Append(existing, heartbeat))

(***************************************************************************)
(* Batch operation: analyseAllHeartbeats.                                  *)
(***************************************************************************)
\* Variant: the loop ends at the first alert.
RECURSIVE CollectFirstAlertOnly(_, _, _)
CollectFirstAlertOnly(grouped, n, cfg) ==
    IF n = 0 THEN [tag |-> "list", items |-> <<>>]
    ELSE LET before == CollectFirstAlertOnly(grouped, n - 1, cfg)
             found == analyseServiceHeartbeats(grouped[n].value, cfg)
         IN  IF before.tag = "RangeError" THEN RangeError
             ELSE IF before.items # <<>> THEN before
             ELSE IF found.tag = "RangeError" THEN RangeError
             ELSE IF found.tag = "alert" THEN [tag |-> "list", items |-> <<found>>]
             ELSE before

\* The loop over the first n groups; an exception of the detector ends it.
\* The result is the alert list, or RangeError.
RECURSIVE CollectAlerts(_, _, _)
CollectAlerts(grouped, n, cfg) ==
    IF n = 0 THEN [tag |-> "list", items |-> <<>>]
    ELSE LET before == CollectAlerts(grouped, n - 1, cfg)
             found == analyseServiceHeartbeats(grouped[n].value, cfg)
         IN  IF before.tag = "RangeError" \/ found.tag = "RangeError" THEN RangeError
             ELSE IF found.tag = "alert" THEN [tag |-> "list", items |-> Append(before.items, found)]
             ELSE before

\* Variant: the detector is run on the whole input, without grouping.
analyseUngrouped(hs, cfg) ==
    LET found == analyseServiceHeartbeats(hs, cfg)
    IN  IF found.tag = "RangeError" THEN RangeError
        ELSE IF found.tag = "alert" THEN [tag |-> "list", items |-> <<found>>]
        ELSE [tag |-> "list", items |-> <<>>]

analyseAllHeartbeats(hs, cfg) ==
    LET grouped == groupHeartbeatsByService(hs)
    IN  CollectAlerts(grouped, Len(grouped), cfg)

(***************************************************************************)
(* Raw input: JavaScript values as the validator sees them.  typeof null   *)
(* is "object"; reading a property an object lacks gives undefined.        *)
(***************************************************************************)
JsUndefined == [type |-> "undefined", text |-> <<>>]
JsNumber == [type |-> "number", text |-> <<"5">>]
JsString(t) == [type |-> "string", text |-> t]

Obj(has, service, timestamp) ==
    [type |-> "object", text |-> <<>>, has |-> has, service |-> service, timestamp |-> timestamp]

NotObj(type, text) ==
    [type |-> type, text |-> text, has |-> {}, service |-> JsUndefined, timestamp |-> JsUndefined]

TypeOf(v) == IF v.type = "null" THEN "object" ELSE v.type

\* Sampled raw service and timestamp texts.
ServiceTexts == {<<"a">>, <<" ", "a", " ">>}
TimestampTexts == {<<"0", "Z">>, <<"0", ".", "9", "9", "9", "Z">>, <<"1", ".", "0", "0", "0", "Z">>}

WellFormedSamples ==
    {Obj({"service", "timestamp"}, JsString(sv), JsString(ts)) : sv \in ServiceTexts, ts \in TimestampTexts}

MalformedSamples ==
    { NotObj("null", <<>>),
      NotObj("string", <<"a">>),
      Obj({"service"}, JsString(<<"a">>), JsUndefined),
      Obj({"timestamp"}, JsUndefined, JsString(<<"0", "Z">>)),
      Obj({"service", "timestamp"}, JsNumber, JsString(<<"0", "Z">>)),
      Obj({"service", "timestamp"}, JsString(<<>>), JsString(<<"0", "Z">>)),
      Obj({"service", "timestamp"}, JsString(<<" ">>), JsString(<<"1", ".", "0", "0", "0", "Z">>)),
      Obj({"service", "timestamp"}, JsString(<<"a">>), JsNumber),
      Obj({"service", "timestamp"}, JsString(<<"a">>), JsString(<<"x">>)) }

RawSamples == WellFormedSamples \cup MalformedSamples

(***************************************************************************)
(* Text helpers: String.prototype.trim and the parse of a timestamp text.  *)
(***************************************************************************)
IsSpace(c) == c = " "

RECURSIVE TrimStart(_)
TrimStart(t) == IF t # <<>> /\ IsSpace(t[1]) THEN TrimStart(Tail(t)) ELSE t

RECURSIVE TrimEnd(_)
TrimEnd(t) == IF t # <<>> /\ IsSpace(t[Len(t)]) THEN TrimEnd(SubSeq(t, 1, Len(t) - 1)) ELSE t

Trim(t) == TrimEnd(TrimStart(t))

IsDigit(c) == \E i \in 1..Len(DigitChar) : DigitChar[i] = c

DigitValue(c) == (CHOOSE i \in 1..Len(DigitChar) : DigitChar[i] = c) - 1

AllDigits(t) == t # <<>> /\ \A i \in 1..Len(t) : IsDigit(t[i])

RECURSIVE NumberOf(_)
NumberOf(t) == IF t = <<>> THEN 0
               ELSE NumberOf(SubSeq(t, 1, Len(t) - 1)) * 10 + DigitValue(t[Len(t)])

\* new Date(text): whole seconds, an optional "." with three millisecond
\* digits, then "Z"; any other text, or a time value out of range, gives an
\* Invalid Date.
DateParse(t) ==
    LET n == Len(t)
        InvalidDate == [valid |-> FALSE, time |-> 0]
    IN  IF n < 2 \/ t[n] # "Z" THEN InvalidDate
        ELSE IF AllDigits(SubSeq(t, 1, n - 1))
             THEN NewDate(NumberOf(SubSeq(t, 1, n - 1)) * MsPerSecond)
        ELSE IF n >= 6 /\ t[n - 4] = "." /\ AllDigits(SubSeq(t, 1, n - 5)) /\ AllDigits(SubSeq(t, n - 3, n - 1))
             THEN NewDate(NumberOf(SubSeq(t, 1, n - 5)) * MsPerSecond + NumberOf(SubSeq(t, n - 3, n - 1)))
        ELSE InvalidDate

(***************************************************************************)
(* Validator: src/src/validator.ts.                                        *)
(***************************************************************************)
hasRequiredFields(event) ==
    /\ TypeOf(event) = "object"
    /\ event.type # "null"
    /\ "service" \in event.has
    /\ "timestamp" \in event.has

\* Variant: any text is accepted as a service, also an empty or blank one.
isValidServiceUntrimmed(service) == TypeOf(service) = "string"

isValidService(service) == TypeOf(service) = "string" /\ Len(Trim(service.text)) > 0

\* A Date, or Null.
parseTimestamp(timestamp) ==
    IF TypeOf(timestamp) # "string" THEN Null
    ELSE LET date == DateParse(timestamp.text)
         IN  IF ~date.valid THEN Null ELSE [tag |-> "Date", time |-> date.time]

\* Variant: the record keeps the raw service text.
parseEventUntrimmed(event) ==
    IF ~hasRequiredFields(event) THEN Null
    ELSE IF ~isValidService(event.service) THEN Null
    ELSE LET timestamp == parseTimestamp(event.timestamp)
         IN  IF timestamp.tag = "null" THEN Null
             ELSE [tag |-> "parsed", service |-> event.service.text, timestamp |-> timestamp.time]

\* A ParsedHeartbeat (tagged "parsed"), or Null.
parseEvent(event) ==
    IF ~hasRequiredFields(event) THEN Null
    ELSE IF ~isValidService(event.service) THEN Null
    ELSE LET timestamp == parseTimestamp(event.timestamp)
         IN  IF timestamp.tag = "null" THEN Null
             ELSE [tag |-> "parsed", service |-> Trim(event.service.text), timestamp |-> timestamp.time]

\* Variant: the loop ends at the first malformed entry.
RECURSIVE validateUntilMalformed(_)
validateUntilMalformed(evs) ==
    IF evs = <<>> THEN [valid |-> <<>>, invalid |-> 0]
    ELSE LET parsed == parseEvent(evs[1])
             rest == validateUntilMalformed(Tail(evs))
         IN  IF parsed.tag = "parsed"
             THEN [valid |-> <<[service |-> parsed.service, timestamp |-> parsed.timestamp]>> \o rest.valid,
                   invalid |-> rest.invalid]
             ELSE [valid |-> <<>>, invalid |-> 1]

\* The loop of validateAndParseEvents over the whole list.
RECURSIVE validateAndParseEvents(_)
validateAndParseEvents(evs) ==
    IF evs = <<>> THEN [valid |-> <<>>, invalid |-> 0]
    ELSE LET before == validateAndParseEvents(SubSeq(evs, 1, Len(evs) - 1))
             parsed == parseEvent(evs[Len(evs)])
         IN  IF parsed.tag = "parsed"
             THEN [valid |-> Append(before.valid, [service |-> parsed.service, timestamp |-> parsed.timestamp]),
                   invalid |-> before.invalid]
             ELSE [valid |-> before.valid, invalid |-> before.invalid + 1]

\* detectMissedHeartbeats: the alert list (tagged "list"), or RangeError.
detectMissedHeartbeats(evs, cfg) == analyseAllHeartbeats(validateAndParseEvents(evs).valid, cfg)

(***************************************************************************)
(* What a call leaves in the caller's arguments.                           *)
(***************************************************************************)
\* Variant: the detector sorts the caller's array itself.
SortedInPlace(hs) == SortByTimestamp(hs)

\* analyseServiceHeartbeats sorts the copy [...heartbeats]; the array it was
\* given keeps its records and their order.
HeartbeatsAfterAnalyseService(hs) == hs

\* groupHeartbeatsByService and analyseAllHeartbeats only read the array they
\* are given: the records are pushed to lists the grouper creates, and the
\* detector is handed those lists.
HeartbeatsAfterGroup(hs) == hs

\* The config is only read (thresholdMs, alertTimestamp).
ConfigAfterCall(cfg) == cfg

(***************************************************************************)
(* Core operations as actions on validated records.                        *)
(***************************************************************************)
InitCore == /\ events = <<>>
            /\ invalid = 0
            /\ heartbeats \in SeqsUpTo(ParsedHeartbeat, MaxLen)
            /\ config \in Config
            /\ pc = "start"
            /\ groupedByService = <<>>
            /\ alert = Null
            /\ alerts = <<>>
            /\ workers = <<>>

AnalyseService == /\ pc = "start"
                  /\ alert' = analyseServiceHeartbeats(heartbeats, config)
                  /\ pc' = IF alert'.tag = "RangeError" THEN "error" ELSE "detected"
                  /\ heartbeats' = HeartbeatsAfterAnalyseService(heartbeats)
                  /\ config' = ConfigAfterCall(config)
                  /\ UNCHANGED <<events, invalid, groupedByService, alerts, workers>>

Group == /\ pc = "start"
         /\ groupedByService' = groupHeartbeatsByService(heartbeats)
         /\ pc' = "grouped"
         /\ heartbeats' = HeartbeatsAfterGroup(heartbeats)
         /\ UNCHANGED <<events, config, invalid, alert, alerts, workers>>

AnalyseAll == /\ pc = "start"
              /\ LET result == analyseAllHeartbeats(heartbeats, config)
                 IN  IF result.tag = "RangeError"
                     THEN pc' = "error" /\ alerts' = <<>>
                     ELSE pc' = "analysed" /\ alerts' = result.items
              /\ heartbeats' = HeartbeatsAfterGroup(heartbeats)
              /\ config' = ConfigAfterCall(config)
              /\ UNCHANGED <<events, invalid, groupedByService, alert, workers>>

NextCore == AnalyseService \/ Group \/ AnalyseAll

SpecCore == InitCore /\ [][NextCore]_vars

(***************************************************************************)
(* The pipeline on raw input: main() validates, then analyses the valid    *)
(* records; detectMissedHeartbeats does both in one call.                  *)
(***************************************************************************)
Init == /\ events \in SeqsUpTo(RawSamples, MaxEvents)
        /\ config \in Config
        /\ pc = "raw"
        /\ heartbeats = <<>>
        /\ invalid = 0
        /\ groupedByService = <<>>
        /\ alert = Null
        /\ alerts = <<>>
        /\ workers = <<>>

ValidateAndParseEvents ==
    /\ pc = "raw"
    /\ LET result == validateAndParseEvents(events)
       IN  heartbeats' = result.valid /\ invalid' = result.invalid
    /\ pc' = "start"
    /\ UNCHANGED <<events, config, groupedByService, alert, alerts, workers>>

DetectMissedHeartbeats ==
    /\ pc = "raw"
    /\ LET result == detectMissedHeartbeats(events, config)
       IN  IF result.tag = "RangeError"
           THEN pc' = "error" /\ alerts' = <<>>
           ELSE pc' = "missed" /\ alerts' = result.items
    /\ UNCHANGED <<events, config, heartbeats, invalid, groupedByService, alert, workers>>

Next == ValidateAndParseEvents \/ DetectMissedHeartbeats \/ AnalyseAll

Spec == Init /\ [][Next]_vars

(***************************************************************************)
(* The loop of analyseAllHeartbeats run as one worker per group: a worker  *)
(* runs the detector on its group, then appends its result to the shared   *)
(* alert list.  The workers take their steps in any order.                 *)
(***************************************************************************)
\* Variant: an append that overwrites what other workers appended meanwhile.
PushAlertOverwrite(list, found) == IF found.tag = "alert" THEN <<found>> ELSE list

\* if (alert) alerts.push(alert)
PushAlert(list, found) == IF found.tag = "alert" THEN Append(list, found) ELSE list

InitParallel == /\ events = <<>>
                /\ invalid = 0
                /\ heartbeats \in SeqsUpTo(ParsedHeartbeat, MaxLen)
                /\ config \in Config
                /\ pc = "analysing"
                /\ groupedByService = groupHeartbeatsByService(heartbeats)
                /\ alert = Null
                /\ alerts = <<>>
                /\ workers = [i \in 1..Len(groupedByService) |-> [state |-> "todo", found |-> Null]]

DetectGroup(i) ==
    /\ workers[i].state = "todo"
    /\ LET found == analyseServiceHeartbeats(groupedByService[i].value, config)
       IN  workers' = [workers EXCEPT ![i] =
                          [state |-> IF found.tag = "RangeError" THEN "failed" ELSE "found",
                           found |-> found]]
    /\ UNCHANGED <<events, config, pc, heartbeats, invalid, groupedByService, alert, alerts>>

CollectGroup(i) ==
    /\ workers[i].state = "found"
    /\ alerts' = PushAlert(alerts, workers[i].found)
    /\ workers' = [workers EXCEPT ![i].state = "done"]
    /\ UNCHANGED <<events, config, pc, heartbeats, invalid, groupedByService, alert>>

NextParallel == \E i \in 1..Len(workers) : DetectGroup(i) \/ CollectGroup(i)

SpecParallel == InitParallel /\ [][NextParallel]_vars

(***************************************************************************)
(* Vocabulary of the properties.  It speaks of the records by their        *)
(* timestamps and never of the sorted list the detector builds.            *)
(***************************************************************************)
ServicesOf(hs) == {hs[i].service : i \in 1..Len(hs)}

ByService(hs, sv) == SelectSeq(hs, LAMBDA h : h.service = sv)

OneService(hs) == Cardinality(ServicesOf(hs)) <= 1

TimestampsOf(hs) == {hs[i].timestamp : i \in 1..Len(hs)}

Count(hs, r) == Cardinality({i \in 1..Len(hs) : hs[i] = r})

\* The pairs <<t, u>> of timestamps of chronologically consecutive records:
\* two records at the same instant, or two instants with no record between.
ConsecutivePairs(hs) ==
    {<<hs[i].timestamp, hs[j].timestamp>> : i \in 1..Len(hs), j \in 1..Len(hs)}
    \cap
    {pr \in TimestampsOf(hs) \X TimestampsOf(hs) :
        \/ /\ pr[1] = pr[2]
           /\ \E i, j \in 1..Len(hs) : i # j /\ hs[i].timestamp = pr[1] /\ hs[j].timestamp = pr[1]
        \/ /\ pr[1] < pr[2]
           /\ ~ \E v \in TimestampsOf(hs) : pr[1] < v /\ v < pr[2]}

IntervalMs(cfg) == cfg.expected_interval_seconds * MsPerSecond

\* thresholdSeconds = expectedIntervalSeconds x (allowedMisses + 1), in milliseconds.
Threshold(cfg) == cfg.expected_interval_seconds * (cfg.allowed_misses + 1) * MsPerSecond

QualifyingPairs(hs, cfg) ==
    {pr \in ConsecutivePairs(hs) :
        pr[2] - pr[1] >= Threshold(cfg)}

\* The earlier instant of the chronologically first qualifying pair.
FirstQualifying(hs, cfg) ==
    CHOOSE t \in {pr[1] : pr \in QualifyingPairs(hs, cfg)} :
        \A pr \in QualifyingPairs(hs, cfg) : t <= pr[1]

\* Whole intervals elapsed over the pair, minus the one already accounted for.
SkippedBeats(pr, cfg) == ((pr[2] - pr[1]) \div IntervalMs(cfg)) - 1

Permute(hs, p) == [i \in 1..Len(hs) |-> hs[p[i]]]

\* The permutation of 1..n that exchanges i and i + 1.
Exchange(n, i) == [k \in 1..n |-> IF k = i THEN i + 1 ELSE IF k = i + 1 THEN i ELSE k]

AlertSet(list) == {list[i] : i \in 1..Len(list)}

\* The alert list of analyseAllHeartbeats, as a set; {RangeError} when it throws.
AllAlertSet(hs, cfg) ==
    LET result == analyseAllHeartbeats(hs, cfg)
    IN  IF result.tag = "RangeError" THEN {RangeError} ELSE AlertSet(result.items)

(***************************************************************************)
(* C1.  The alert list returned by analyseAllHeartbeats holds at most one  *)
(* alert per distinct service identifier of the input, and every alert's   *)
(* service is a service identifier that occurs in the input.               *)
(***************************************************************************)
C1_OneAlertPerService ==
    pc = "analysed" =>
        /\ \A i, j \in 1..Len(alerts) : alerts[i].service = alerts[j].service => i = j
        /\ \A i \in 1..Len(alerts) : alerts[i].service \in ServicesOf(heartbeats)

\* A service with two qualifying gaps is analysed and alerts once.
C1_Witness ==
    /\ pc = "analysed"
    /\ Len(alerts) = 1
    /\ Cardinality(QualifyingPairs(ByService(heartbeats, alerts[1].service), config)) >= 2

(***************************************************************************)
(* C2.  When the records of one service have two or more consecutive pairs *)
(* with a gap >= threshold, analyseServiceHeartbeats returns the alert of  *)
(* the chronologically first of them: every consecutive pair earlier than  *)
(* the pair the alert is computed from has a gap below the threshold.      *)
(***************************************************************************)
C2_FirstChronologicalGap ==
    (/\ pc \in {"detected", "error"}
     /\ OneService(heartbeats)
     /\ Cardinality(QualifyingPairs(heartbeats, config)) >= 2)
    => /\ alert.tag = "alert"
       /\ \E pr \in QualifyingPairs(heartbeats, config) :
            /\ alert.alert_at = ToISOString(pr[1] + IntervalMs(config))
            /\ \A e \in ConsecutivePairs(heartbeats) :
                 e[1] < pr[1] => e[2] - e[1] < Threshold(config)

C2_Witness ==
    /\ pc = "detected"
    /\ OneService(heartbeats)
    /\ Cardinality(QualifyingPairs(heartbeats, config)) >= 2
    /\ alert.tag = "alert"

(***************************************************************************)
(* C3.  Whenever analyseServiceHeartbeats emits an alert, alert_at is the  *)
(* timestamp of the earlier record of the qualifying pair plus exactly     *)
(* expected_interval_seconds, whatever the size of the gap and the later   *)
(* record's timestamp, and the alert's service is that record's service.   *)
(***************************************************************************)
C3_AlertAtIsEarlierPlusInterval ==
    (pc = "detected" /\ alert.tag = "alert") =>
        /\ QualifyingPairs(heartbeats, config) # {}
        /\ alert.alert_at = ToISOString(FirstQualifying(heartbeats, config) + IntervalMs(config))
        /\ \E i \in 1..Len(heartbeats) :
             /\ heartbeats[i].timestamp = FirstQualifying(heartbeats, config)
             /\ heartbeats[i].service = alert.service

\* An alert for a gap larger than the threshold.
C3_Witness ==
    /\ pc = "detected"
    /\ alert.tag = "alert"
    /\ \E pr \in QualifyingPairs(heartbeats, config) :
         /\ pr[1] = FirstQualifying(heartbeats, config)
         /\ pr[2] - pr[1] > Threshold(config)

(***************************************************************************)
(* C4.  With exactly two records, a gap equal to                           *)
(* expected_interval_seconds x (allowed_misses + 1) produces an alert and  *)
(* a gap one millisecond below it produces none.                           *)
(***************************************************************************)
TwoRecordGap == Max(heartbeats[1].timestamp, heartbeats[2].timestamp)
                - (heartbeats[1].timestamp + heartbeats[2].timestamp
                   - Max(heartbeats[1].timestamp, heartbeats[2].timestamp))

C4_ThresholdBoundary ==
    (pc \in {"detected", "error"} /\ Len(heartbeats) = 2) =>
        /\ TwoRecordGap = Threshold(config)
             => alert.tag = "alert"
        /\ TwoRecordGap = Threshold(config) - 1
             => alert.tag = "null"

\* Two records one millisecond short of the threshold.
C4_Witness ==
    /\ pc = "detected"
    /\ Len(heartbeats) = 2
    /\ OneService(heartbeats)
    /\ TwoRecordGap = Threshold(config) - 1
    /\ alert.tag = "null"

\* Two records exactly at the threshold.
C4_AtThresholdReached ==
    /\ pc = "detected"
    /\ Len(heartbeats) = 2
    /\ TwoRecordGap = Threshold(config)
    /\ alert.tag = "alert"

(***************************************************************************)
(* C5.  For every permutation of the input, analyseAllHeartbeats returns   *)
(* the same set of alerts, and analyseServiceHeartbeats on the records of  *)
(* one service returns the same result.  Every sequence of records is an   *)
(* input of the specification and every permutation is a product of        *)
(* exchanges of neighbours, so the property is stated for one exchange.    *)
(***************************************************************************)
C5_PermutationInvariant ==
    /\ pc \in {"analysed", "error"} =>
         \A i \in 1..(Len(heartbeats) - 1) :
            /\ pc = "analysed"
            /\ AllAlertSet(Permute(heartbeats, Exchange(Len(heartbeats), i)), config) = AlertSet(alerts)
    /\ (pc \in {"detected", "error"} /\ OneService(heartbeats)) =>
         \A i \in 1..(Len(heartbeats) - 1) :
            analyseServiceHeartbeats(Permute(heartbeats, Exchange(Len(heartbeats), i)), config) = alert

\* Records out of chronological order, and an alert.
C5_Witness ==
    /\ pc = "analysed"
    /\ Len(alerts) >= 1
    /\ \E i, j \in 1..Len(heartbeats) :
         /\ i < j
         /\ heartbeats[i].service = heartbeats[j].service
         /\ heartbeats[i].timestamp > heartbeats[j].timestamp

(***************************************************************************)
(* C6.  analyseServiceHeartbeats returns null, without error, for every    *)
(* group of 0 or 1 records; a service with a single record never appears   *)
(* in the alert list and an empty input gives an empty alert list.         *)
(***************************************************************************)
C6_FewerThanTwoRecords ==
    /\ (pc \in {"detected", "error"} /\ Len(heartbeats) < 2) => (pc = "detected" /\ alert.tag = "null")
    /\ pc = "analysed" =>
         \A i \in 1..Len(alerts) : Len(ByService(heartbeats, alerts[i].service)) >= 2
    /\ (pc \in {"analysed", "error"} /\ heartbeats = <<>>) => (pc = "analysed" /\ alerts = <<>>)

\* Another service alerts while a service with a single record stays silent.
C6_Witness ==
    /\ pc = "analysed"
    /\ Len(alerts) = 1
    /\ \E sv \in ServicesOf(heartbeats) : Len(ByService(heartbeats, sv)) = 1

\* The detector is run on an empty group and on a group of one record.
C6_EmptyGroupReached == pc = "detected" /\ Len(heartbeats) = 0 /\ alert.tag = "null"

C6_SingleRecordReached == pc = "detected" /\ Len(heartbeats) = 1 /\ alert.tag = "null"

(***************************************************************************)
(* C7.  analyseServiceHeartbeats returns an alert if and only if some pair *)
(* of chronologically consecutive records has at least allowed_misses      *)
(* skipped beats, the skipped beats of a pair being                        *)
(* floor(gap / expected_interval_seconds) - 1; otherwise it returns null.  *)
(***************************************************************************)
C7_AlertIffSkippedBeats ==
    pc \in {"detected", "error"} =>
        /\ alert.tag \in {"alert", "null"}
        /\ alert.tag = "alert" <=>
             \E pr \in ConsecutivePairs(heartbeats) : SkippedBeats(pr, config) >= config.allowed_misses

\* An alert for a gap that is no whole number of intervals.
C7_Witness ==
    /\ pc = "detected"
    /\ alert.tag = "alert"
    /\ OneService(heartbeats)
    /\ \A pr \in QualifyingPairs(heartbeats, config) : (pr[2] - pr[1]) % IntervalMs(config) # 0

(***************************************************************************)
(* C8.  groupHeartbeatsByService returns a mapping in which each input     *)
(* record appears exactly once, in the group keyed by its exact service    *)
(* text: the keys are distinct and are exactly the service texts of the    *)
(* input, no group is empty and the group sizes sum to the input length.   *)
(***************************************************************************)
RECURSIVE SumOfSizes(_, _)
SumOfSizes(m, n) == IF n = 0 THEN 0 ELSE SumOfSizes(m, n - 1) + Len(m[n].value)

C8_GroupingPartitionsInput ==
    pc = "grouped" =>
        /\ \A i, j \in 1..Len(groupedByService) :
             groupedByService[i].key = groupedByService[j].key => i = j
        /\ {groupedByService[i].key : i \in 1..Len(groupedByService)} = ServicesOf(heartbeats)
        /\ \A i \in 1..Len(groupedByService) :
             /\ groupedByService[i].value # <<>>
             /\ \A k \in 1..Len(groupedByService[i].value) :
                  groupedByService[i].value[k].service = groupedByService[i].key
             /\ \A r \in Range(heartbeats) :
                  r.service = groupedByService[i].key =>
                      Count(groupedByService[i].value, r) = Count(heartbeats, r)
        /\ SumOfSizes(groupedByService, Len(groupedByService)) = Len(heartbeats)

\* Identifiers that differ only in letter case get a group each, and a group
\* holds several records.
C8_Witness ==
    /\ pc = "grouped"
    /\ Len(groupedByService) = 2
    /\ \E i \in 1..Len(groupedByService) : Len(groupedByService[i].value) >= 2

(***************************************************************************)
(* C9.  A service is in the alert list of analyseAllHeartbeats if and only *)
(* if analyseServiceHeartbeats on exactly its records returns an alert,    *)
(* and the alert listed is that result; a service with no consecutive gap  *)
(* >= threshold is never listed and one with such a gap is never omitted.  *)
(***************************************************************************)
C9_ListedIffServiceAlerts ==
    pc \in {"analysed", "error"} =>
        /\ pc = "analysed"
        /\ \A sv \in ServicesOf(heartbeats) :
             /\ (\E i \in 1..Len(alerts) : alerts[i].service = sv)
                  <=> analyseServiceHeartbeats(ByService(heartbeats, sv), config).tag = "alert"
             /\ (\E i \in 1..Len(alerts) : alerts[i].service = sv)
                  <=> QualifyingPairs(ByService(heartbeats, sv), config) # {}
        /\ \A i \in 1..Len(alerts) :
             alerts[i] = analyseServiceHeartbeats(ByService(heartbeats, alerts[i].service), config)

\* One alerting service and one healthy service with its records interleaved.
C9_Witness ==
    /\ pc = "analysed"
    /\ Cardinality(ServicesOf(heartbeats)) = 2
    /\ Len(alerts) = 1
    /\ heartbeats[1].service # alerts[1].service
    /\ heartbeats[Len(heartbeats)].service # alerts[1].service

(***************************************************************************)
(* C10.  validateAndParseEvents returns valid and invalid with             *)
(* valid.length + invalid = number of entries: invalid counts the          *)
(* malformed entries, valid holds the well-formed entries in input order,  *)
(* and a malformed entry never stops the entries after it from being       *)
(* processed.                                                              *)
(***************************************************************************)
\* The record a well-formed sample stands for.
RecordOf(e) == [service |-> Trim(e.service.text), timestamp |-> DateParse(e.timestamp.text).time]

RECURSIVE WellFormedRecords(_)
WellFormedRecords(evs) ==
    IF evs = <<>> THEN <<>>
    ELSE IF evs[1] \in WellFormedSamples THEN <<RecordOf(evs[1])>> \o WellFormedRecords(Tail(evs))
    ELSE WellFormedRecords(Tail(evs))

C10_ValidatorCountsAndKeepsOrder ==
    pc = "start" =>
        /\ Len(heartbeats) + invalid = Len(events)
        /\ invalid = Cardinality({i \in 1..Len(events) : events[i] \in MalformedSamples})
        /\ heartbeats = WellFormedRecords(events)

\* A malformed entry first, well-formed entries after it, and an input of
\* only malformed entries.
C10_Witness ==
    /\ pc = "start"
    /\ Len(events) >= 2
    /\ events[1] \in MalformedSamples
    /\ events[Len(events)] \in WellFormedSamples
    /\ Len(heartbeats) >= 1
    /\ invalid >= 1

C10_OnlyMalformedReached ==
    /\ pc = "start"
    /\ Len(events) = MaxEvents
    /\ heartbeats = <<>>
    /\ invalid = Len(events)

(***************************************************************************)
(* C11.  Every record of the valid list has a non-empty service equal to   *)
(* the trimmed text of the raw service field and a timestamp that is a     *)
(* valid instant; an entry that is no object, lacks the service or the     *)
(* timestamp field, has a non-text, empty or blank service, or a non-text  *)
(* or unparseable timestamp, never yields a record.                        *)
(***************************************************************************)
\* The malformed entries, by their shape.
IsMalformedEntry(e) ==
    \/ e.type # "object"
    \/ "service" \notin e.has
    \/ "timestamp" \notin e.has
    \/ e.service.type # "string"
    \/ \A i \in 1..Len(e.service.text) : e.service.text[i] = " "
    \/ e.timestamp.type # "string"
    \/ ~DateParse(e.timestamp.text).valid

AcceptableIndices(evs) == {i \in 1..Len(evs) : ~IsMalformedEntry(evs[i])}

\* The index of the k-th entry that is not malformed.
NthAcceptable(evs, k) ==
    CHOOSE i \in AcceptableIndices(evs) : Cardinality({j \in AcceptableIndices(evs) : j <= i}) = k

C11_ValidRecordsAreWellFormed ==
    pc = "start" =>
        /\ Len(heartbeats) = Cardinality(AcceptableIndices(events))
        /\ \A k \in 1..Len(heartbeats) :
             LET h == heartbeats[k]
                 e == events[NthAcceptable(events, k)]
             IN  /\ h.service # <<>>
                 /\ h.service[1] # " "
                 /\ h.service[Len(h.service)] # " "
                 /\ \E lead, trail \in 0..Len(e.service.text) :
                      /\ Len(e.service.text) = lead + Len(h.service) + trail
                      /\ SubSeq(e.service.text, lead + 1, lead + Len(h.service)) = h.service
                      /\ \A i \in (1..lead) \cup ((lead + Len(h.service) + 1)..Len(e.service.text)) :
                           e.service.text[i] = " "
                 /\ h.timestamp >= -MaxTimeValue
                 /\ h.timestamp <= MaxTimeValue
                 /\ h.timestamp = DateParse(e.timestamp.text).time

\* A record whose raw service text had blanks around it, next to an entry
\* with a blank service.
C11_Witness ==
    /\ pc = "start"
    /\ \E k \in 1..Len(heartbeats) :
         events[NthAcceptable(events, k)].service.text # heartbeats[k].service
    /\ \E i \in 1..Len(events) :
         /\ events[i].type = "object"
         /\ events[i].service.type = "string"
         /\ events[i].service.text = <<" ">>

(***************************************************************************)
(* C12.  Malformed entries never influence the alerts:                     *)
(* detectMissedHeartbeats returns the same alert list as on the input with *)
(* every malformed entry removed, wherever the malformed entries stand.    *)
(***************************************************************************)
WithoutMalformed(evs) == SelectSeq(evs, LAMBDA e : ~IsMalformedEntry(e))

C12_MalformedEntriesDoNotInfluenceAlerts ==
    pc \in {"missed", "error"} =>
        LET clean == detectMissedHeartbeats(WithoutMalformed(events), config)
        IN  /\ pc = "missed"
            /\ clean.tag = "list"
            /\ clean.items = alerts

\* An alert from two well-formed entries with a malformed entry between them.
C12_Witness ==
    /\ pc = "missed"
    /\ Len(alerts) >= 1
    /\ Len(events) = 3
    /\ ~IsMalformedEntry(events[1])
    /\ IsMalformedEntry(events[2])
    /\ ~IsMalformedEntry(events[3])

(***************************************************************************)
(* C13.  Running the detector on the groups in any order, or as workers    *)
(* that interleave and each append their result to the alert list, gives   *)
(* the same set of alerts as the sequential loop of analyseAllHeartbeats;  *)
(* only the order of the list may differ.                                  *)
(***************************************************************************)
AllWorkersDone == \A i \in 1..Len(workers) : workers[i].state \in {"done", "failed"}

C13_AnyOrderSameAlertSet ==
    (pc = "analysing" /\ AllWorkersDone) =>
        /\ \A i \in 1..Len(workers) : workers[i].state = "done"
        /\ AlertSet(alerts) = AllAlertSet(heartbeats, config)
        /\ Len(alerts) = Cardinality(AllAlertSet(heartbeats, config))

\* Two alerts, appended in the order opposite to that of the sequential loop.
C13_Witness ==
    /\ pc = "analysing"
    /\ AllWorkersDone
    /\ Len(alerts) = 2
    /\ alerts # analyseAllHeartbeats(heartbeats, config).items

(***************************************************************************)
(* C14.  A consecutive pair of records with identical timestamps has gap   *)
(* zero and never triggers an alert, and the order in which the sort       *)
(* places records of equal timestamp does not change the result of         *)
(* analyseServiceHeartbeats.  Every placement of the ties is reached from  *)
(* the sorted list by exchanges of neighbours of equal timestamp, and      *)
(* every list so reached is itself the sorted list of an input of the      *)
(* specification, so the property is stated for one exchange.              *)
(***************************************************************************)
TiedNeighbours(sorted) ==
    {i \in 1..(Len(sorted) - 1) : sorted[i].timestamp = sorted[i + 1].timestamp}

C14_EqualTimestampsNeverTrigger ==
    pc \in {"detected", "error"} =>
        LET sorted == SortByTimestamp(heartbeats)
        IN  /\ \A i \in TiedNeighbours(sorted) :
                 /\ GapMs(sorted, i) = 0
                 /\ ~Qualifies(sorted, i, config)
                 /\ LET other == Scan(Permute(sorted, Exchange(Len(sorted), i)), 1, config)
                    IN  /\ other.tag = alert.tag
                        /\ other.tag = "alert" => other.alert_at = alert.alert_at
                        /\ (other.tag = "alert" /\ OneService(heartbeats)) => other.service = alert.service
            /\ (Len(heartbeats) >= 2 /\ Cardinality(TimestampsOf(heartbeats)) = 1) => alert.tag = "null"
            /\ alert.tag = "alert" =>
                 \E t, u \in TimestampsOf(heartbeats) :
                    t < u /\ alert.alert_at = ToISOString(t + IntervalMs(config))

\* Records of one service with a tie ahead of the gap that triggers.
C14_Witness ==
    /\ pc = "detected"
    /\ OneService(heartbeats)
    /\ alert.tag = "alert"
    /\ \E i, j \in 1..Len(heartbeats) :
         /\ i # j
         /\ heartbeats[i].timestamp = heartbeats[j].timestamp
         /\ ToISOString(heartbeats[i].timestamp + IntervalMs(config)) = alert.alert_at

\* Records that all carry the same timestamp.
C14_AllTiedReached ==
    /\ pc = "detected"
    /\ Len(heartbeats) = MaxLen
    /\ Cardinality(TimestampsOf(heartbeats)) = 1
    /\ alert.tag = "null"

(***************************************************************************)
(* C15.  For every alert of analyseServiceHeartbeats, with allowed_misses  *)
(* = 0 included, alert_at is the expected time of a beat that was missed:  *)
(* no record of that service has a timestamp equal to alert_at, and        *)
(* alert_at is the first expected beat time after the earlier record of    *)
(* the qualifying pair.                                                    *)
(***************************************************************************)
C15_AlertAtIsAMissedBeat ==
    (pc = "detected" /\ OneService(heartbeats) /\ alert.tag = "alert") =>
        /\ \A i \in 1..Len(heartbeats) :
             heartbeats[i].service = alert.service =>
                 ToISOString(heartbeats[i].timestamp) # alert.alert_at
        /\ QualifyingPairs(heartbeats, config) # {}
        /\ alert.alert_at = ToISOString(FirstQualifying(heartbeats, config) + IntervalMs(config))

\* The same, for the configs that tolerate at least one miss.
C15_HoldsWhenAMissIsAllowed ==
    (pc = "detected" /\ OneService(heartbeats) /\ alert.tag = "alert" /\ config.allowed_misses >= 1) =>
        \A i \in 1..Len(heartbeats) :
            heartbeats[i].service = alert.service =>
                ToISOString(heartbeats[i].timestamp) # alert.alert_at

(***************************************************************************)
(* C16.  For well-formed records with timestamps in the range of Date,     *)
(* positive expected_interval_seconds and non-negative allowed_misses,     *)
(* analyseServiceHeartbeats and analyseAllHeartbeats return a value (an    *)
(* alert, null, or a list) and never reach an error; the alert_at they     *)
(* compute is a representable instant, so rendering it as text cannot      *)
(* fail.                                                                   *)
(***************************************************************************)
Representable(text) ==
    /\ DateParse(text).valid
    /\ ToISOString(DateParse(text).time) = text

C16_NeverRaises ==
    /\ pc # "error"
    /\ pc = "start" => /\ analyseServiceHeartbeats(heartbeats, config).tag \in {"alert", "null"}
                       /\ analyseAllHeartbeats(heartbeats, config).tag = "list"
    /\ pc = "detected" => /\ alert.tag \in {"alert", "null"}
                          /\ alert.tag = "alert" => Representable(alert.alert_at)
    /\ pc = "analysed" => \A i \in 1..Len(alerts) :
                             alerts[i].tag = "alert" /\ Representable(alerts[i].alert_at)

\* An alert whose later record stands at the last instant a Date can hold.
C16_Witness ==
    /\ pc = "detected"
    /\ alert.tag = "alert"
    /\ OneService(heartbeats)
    /\ Len(heartbeats) = 2
    /\ MaxTimeValue \in TimestampsOf(heartbeats)

(***************************************************************************)
(* C18.  Every alert of analyseServiceHeartbeats satisfies                 *)
(* current.timestamp < alert_at <= next.timestamp for the qualifying pair  *)
(* (current, next), and alert_at < next.timestamp when allowed_misses >=   *)
(* 1; hence alert_at never lies after the latest record of the service.    *)
(***************************************************************************)
\* The later instant of the chronologically first qualifying pair.
NextOfFirstQualifying(hs, cfg) ==
    CHOOSE u \in TimestampsOf(hs) : <<FirstQualifying(hs, cfg), u>> \in QualifyingPairs(hs, cfg)

LatestOf(hs) == CHOOSE t \in TimestampsOf(hs) : \A u \in TimestampsOf(hs) : u <= t

C18_AlertAtWithinThePair ==
    (pc = "detected" /\ alert.tag = "alert") =>
        /\ QualifyingPairs(heartbeats, config) # {}
        /\ DateParse(alert.alert_at).valid
        /\ LET alertAt == DateParse(alert.alert_at).time
               current == FirstQualifying(heartbeats, config)
               next == NextOfFirstQualifying(heartbeats, config)
           IN  /\ current < alertAt
               /\ alertAt <= next
               /\ config.allowed_misses >= 1 => alertAt < next
               /\ alertAt <= LatestOf(heartbeats)

\* An alert that falls short of the later record of its pair.
C18_Witness ==
    /\ pc = "detected"
    /\ alert.tag = "alert"
    /\ OneService(heartbeats)
    /\ config.allowed_misses >= 1
    /\ QualifyingPairs(heartbeats, config) # {}
    /\ DateParse(alert.alert_at).time < NextOfFirstQualifying(heartbeats, config)

\* With allowed_misses = 0 the alert can fall on the later record itself.
C18_AtTheLaterRecordReached ==
    /\ pc = "detected"
    /\ alert.tag = "alert"
    /\ QualifyingPairs(heartbeats, config) # {}
    /\ DateParse(alert.alert_at).time = NextOfFirstQualifying(heartbeats, config)

(***************************************************************************)
(* C17.  groupHeartbeatsByService, analyseServiceHeartbeats and            *)
(* analyseAllHeartbeats leave their arguments unchanged: after a call the  *)
(* caller's record sequence has the same records in the same order, each   *)
(* record unmodified, and the config has the same                          *)
(* expected_interval_seconds and allowed_misses.                           *)
(***************************************************************************)
C17_ArgumentsUnchanged ==
    [][pc = "start" =>
          /\ heartbeats' = heartbeats
          /\ config'.expected_interval_seconds = config.expected_interval_seconds
          /\ config'.allowed_misses = config.allowed_misses]_vars

\* The detector has run on records that were not in chronological order, and
\* they still are not.
C17_Witness ==
    /\ pc = "detected"
    /\ alert.tag = "alert"
    /\ \E i \in 1..(Len(heartbeats) - 1) : heartbeats[i].timestamp > heartbeats[i + 1].timestamp

====
